---- MODULE Spec2Model ----
(***************************************************************************)
(* Template resolution of pkg/oam/util/template.go: LoadTemplate locates   *)
(* the definition behind a capability (ComponentDefinition with a          *)
(* WorkloadDefinition fallback, TraitDefinition), NewTemplate extracts the *)
(* template from schematic / status / extension, and                       *)
(* ConvertTemplateJSON2Object builds a capability descriptor from the same *)
(* fields.                                                                 *)
(*                                                                         *)
(* Go values are modelled as records.  A pointer is a record with an isNil *)
(* field; the zero value of a struct is the record of zero fields.  Raw    *)
(* JSON bytes are modelled as the sequence of their JSON tokens, and       *)
(* json.Unmarshal is modelled by a recursive-descent parse of that token   *)
(* sequence (objects, strings, numbers and null).                          *)
(***************************************************************************)
EXTENDS Integers, Sequences, FiniteSets, TLC

VARIABLES pc, kd, store, args, fetched, ret, capability, jsonCalls

vars == <<pc, kd, store, args, fetched, ret, capability, jsonCalls>>

-----------------------------------------------------------------------------
(* Bounds of the model.                                                    *)

\* Longest raw extension payload, in JSON tokens, that is enumerated
\* exhaustively for direct NewTemplate / ConvertTemplateJSON2Object calls.
MaxRawLen == 5

-----------------------------------------------------------------------------
(* encoding/json as used by NewTemplate and ConvertTemplateJSON2Object.    *)

StringLexemes == {"\"template\"", "\"X\""}

\* The Go string a JSON string literal decodes to.
StrVal(lex) == IF lex = "\"template\"" THEN "template" ELSE "X"

\* Tokens enumerated exhaustively up to MaxRawLen.
Tokens == {"{", "}", ":", "1"} \cup StringLexemes

EmptyMap == <<>>

MapSet(m, k, v) == [x \in (DOMAIN m) \cup {k} |-> IF x = k THEN v ELSE m[x]]

\* Go map lookup: the zero value for a missing key.
MapGet(m, k) == IF k \in DOMAIN m THEN m[k] ELSE ""

JNull == [kind |-> "null", str |-> "", members |-> EmptyMap]

\* A number keeps its literal text.
JNumber == [kind |-> "number", str |-> "1", members |-> EmptyMap]

JString(s) == [kind |-> "string", str |-> s, members |-> EmptyMap]

JObject(m) == [kind |-> "object", str |-> "", members |-> m]

ScanFail == [ok |-> FALSE, val |-> JNull, next |-> 0]

ScanOk(v, n) == [ok |-> TRUE, val |-> v, next |-> n]

RECURSIVE scanValue(_, _)
RECURSIVE scanMembers(_, _, _)

\* One JSON value starting at data[i]; next is the index after it.
scanValue(data, i) ==
    IF i > Len(data) THEN ScanFail
    ELSE LET tok == data[i] IN
         CASE tok \in StringLexemes -> ScanOk(JString(StrVal(tok)), i + 1)
           [] tok = "1" -> ScanOk(JNumber, i + 1)
           [] tok = "null" -> ScanOk(JNull, i + 1)
           [] tok = "{" ->
                IF i + 1 <= Len(data) /\ data[i + 1] = "}"
                THEN ScanOk(JObject(EmptyMap), i + 2)
                ELSE scanMembers(data, i + 1, EmptyMap)
           [] OTHER -> ScanFail

\* The members of an object from data[i] on, up to its closing brace.  A
\* repeated key overwrites the earlier entry, as a Go map assignment does.
scanMembers(data, i, m) ==
    IF i + 1 > Len(data) THEN ScanFail
    ELSE IF data[i] \notin StringLexemes \/ data[i + 1] # ":" THEN ScanFail
    ELSE LET v == scanValue(data, i + 2) IN
         IF ~v.ok THEN ScanFail
         ELSE IF v.next > Len(data) THEN ScanFail
         ELSE LET m2 == MapSet(m, StrVal(data[i]), v.val) IN
              CASE data[v.next] = "}" -> ScanOk(JObject(m2), v.next + 1)
                [] data[v.next] = "," -> scanMembers(data, v.next + 1, m2)
                [] OTHER -> ScanFail

\* json.Unmarshal first checks that data is exactly one JSON value.
checkValid(data) ==
    LET r == scanValue(data, 1) IN r.ok /\ r.next = Len(data) + 1

\* json.Unmarshal(data, &m) for m of type map[string]interface{}: a syntax
\* error for invalid input, a type error for a value that is neither an
\* object nor null, and otherwise the decoded members (null leaves no entry).
UnmarshalMap(data) ==
    IF ~checkValid(data) THEN [err |-> "SyntaxError", m |-> EmptyMap]
    ELSE LET v == scanValue(data, 1).val IN
         CASE v.kind = "object" -> [err |-> "nil", m |-> v.members]
           [] v.kind = "null" -> [err |-> "nil", m |-> EmptyMap]
           [] OTHER -> [err |-> "UnmarshalTypeError", m |-> EmptyMap]

-----------------------------------------------------------------------------
(* Go values.                                                              *)

\* errors: the innermost cause and the context messages wrapped around it,
\* outermost first.  A message is <<format, argument>>.
NilErr == [cause |-> "nil", ctx |-> <<>>]

NewErr(cause) == [cause |-> cause, ctx |-> <<>>]

\* errors.WithMessagef / errors.Wrapf
WithMessagef(err, format, arg) ==
    [cause |-> err.cause, ctx |-> <<(<<format, arg>>)>> \o err.ctx]

\* kerrors.IsNotFound; false for a nil error.
IsNotFound(err) == err.cause = "NotFound"

\* types.CapabilityCategory; the zero value is the plain category.
PlainCategory == ""

HelmCategory == "helm"

TerraformCategory == "terraform"

\* types.CapType
TypeComponentDefinition == "componentDefinition"

TypeTrait == "trait"

TypeScope == "scope"

\* v1alpha2.WorkloadGVK
ZeroGVK == [APIVersion |-> "", Kind |-> ""]

\* *v1alpha2.Helm
NilHelm == [isNil |-> TRUE, Release |-> ""]

\* *v1alpha2.CUE
NilCUE == [isNil |-> TRUE, Template |-> ""]

\* *v1alpha2.Schematic
NilSchematic == [isNil |-> TRUE, CUE |-> NilCUE, HELM |-> NilHelm]

\* *v1alpha2.Status
NilStatus == [isNil |-> TRUE, CustomStatus |-> "", HealthPolicy |-> ""]

\* *runtime.RawExtension; RawNil tells a nil byte slice from an empty one.
NilExtension == [isNil |-> TRUE, RawNil |-> TRUE, Raw |-> <<>>]

RawExtension(data) == [isNil |-> FALSE, RawNil |-> FALSE, Raw |-> data]

\* &Template{}
ZeroTemplate ==
    [isNil |-> FALSE, TemplateStr |-> "", Health |-> "", CustomStatus |-> "",
     CapabilityCategory |-> PlainCategory, Reference |-> ZeroGVK,
     Helm |-> NilHelm]

\* (*Template)(nil)
NilTemplate == [ZeroTemplate EXCEPT !.isNil = TRUE]

\* The fields of a definition object that LoadTemplate reads; new(T) is the
\* zero object.
ZeroDefinition ==
    [Annotations |-> EmptyMap, Schematic |-> NilSchematic,
     Status |-> NilStatus, Extension |-> NilExtension, Workload |-> ZeroGVK]

\* types.Capability, as far as this file assigns it.
ZeroCapability == [Name |-> "", CueTemplate |-> ""]

-----------------------------------------------------------------------------
(* NewTemplate.                                                            *)

\* extensionTemplate with the unmarshal error dropped.
extensionTemplate_ErrorDropped(tmp, raw) ==
    IF tmp.TemplateStr = "" /\ ~raw.isNil
    THEN LET u == UnmarshalMap(raw.Raw) IN
         IF "template" \in DOMAIN u.m /\ u.m["template"].kind = "string"
         THEN [tmpl |-> [tmp EXCEPT !.TemplateStr = u.m["template"].str],
               err |-> NilErr, jsonCalls |-> 1]
         ELSE [tmpl |-> tmp, err |-> NilErr, jsonCalls |-> 1]
    ELSE [tmpl |-> tmp, err |-> NilErr, jsonCalls |-> 0]

\* extensionTemplate without the string type assertion on the entry.
extensionTemplate_NoTypeAssertion(tmp, raw) ==
    IF tmp.TemplateStr = "" /\ ~raw.isNil
    THEN LET u == UnmarshalMap(raw.Raw) IN
         IF u.err # "nil"
         THEN [tmpl |-> NilTemplate, err |-> NewErr(u.err), jsonCalls |-> 1]
         ELSE IF "template" \in DOMAIN u.m
         THEN [tmpl |-> [tmp EXCEPT !.TemplateStr = u.m["template"].str],
               err |-> NilErr, jsonCalls |-> 1]
         ELSE [tmpl |-> tmp, err |-> NilErr, jsonCalls |-> 1]
    ELSE [tmpl |-> tmp, err |-> NilErr, jsonCalls |-> 0]

\* The extension branch of NewTemplate: the raw payload is unmarshalled
\* into a map[string]interface{} and its "template" entry is taken when it
\* is a string.  jsonCalls counts the json.Unmarshal calls made.
extensionTemplate(tmp, raw) ==
    IF tmp.TemplateStr = "" /\ ~raw.isNil
    THEN LET u == UnmarshalMap(raw.Raw) IN
         IF u.err # "nil"
         THEN [tmpl |-> NilTemplate, err |-> NewErr(u.err), jsonCalls |-> 1]
         ELSE IF "template" \in DOMAIN u.m /\ u.m["template"].kind = "string"
         THEN [tmpl |-> [tmp EXCEPT !.TemplateStr = u.m["template"].str],
               err |-> NilErr, jsonCalls |-> 1]
         ELSE [tmpl |-> tmp, err |-> NilErr, jsonCalls |-> 1]
    ELSE [tmpl |-> tmp, err |-> NilErr, jsonCalls |-> 0]

\* NewTemplate with HELM tested before CUE.
NewTemplate_HelmFirst(schematic, status, raw) ==
    LET tmp == IF ~status.isNil
               THEN [ZeroTemplate EXCEPT !.CustomStatus = status.CustomStatus,
                                         !.Health = status.HealthPolicy]
               ELSE ZeroTemplate
    IN  IF ~schematic.isNil /\ ~schematic.HELM.isNil
        THEN [tmpl |-> [tmp EXCEPT !.Helm = schematic.HELM,
                                   !.CapabilityCategory = HelmCategory],
              err |-> NilErr, jsonCalls |-> 0]
        ELSE IF ~schematic.isNil /\ ~schematic.CUE.isNil
        THEN [tmpl |-> [tmp EXCEPT !.TemplateStr = schematic.CUE.Template],
              err |-> NilErr, jsonCalls |-> 0]
        ELSE extensionTemplate(tmp, raw)

\* NewTemplate without the return that ends the HELM branch.
NewTemplate_HelmFallsThrough(schematic, status, raw) ==
    LET tmp == IF ~status.isNil
               THEN [ZeroTemplate EXCEPT !.CustomStatus = status.CustomStatus,
                                         !.Health = status.HealthPolicy]
               ELSE ZeroTemplate
    IN  IF ~schematic.isNil /\ ~schematic.CUE.isNil
        THEN [tmpl |-> [tmp EXCEPT !.TemplateStr = schematic.CUE.Template],
              err |-> NilErr, jsonCalls |-> 0]
        ELSE IF ~schematic.isNil /\ ~schematic.HELM.isNil
        THEN extensionTemplate([tmp EXCEPT !.Helm = schematic.HELM,
                                      !.CapabilityCategory = HelmCategory],
                               raw)
        ELSE extensionTemplate(tmp, raw)

\* NewTemplate(schematic, status, raw): the status is copied first, then CUE
\* wins over HELM, and HELM over the extension.
NewTemplate(schematic, status, raw) ==
    LET tmp == IF ~status.isNil
               THEN [ZeroTemplate EXCEPT !.CustomStatus = status.CustomStatus,
                                         !.Health = status.HealthPolicy]
               ELSE ZeroTemplate
    IN  IF ~schematic.isNil /\ ~schematic.CUE.isNil
        THEN [tmpl |-> [tmp EXCEPT !.TemplateStr = schematic.CUE.Template],
              err |-> NilErr, jsonCalls |-> 0]
        ELSE IF ~schematic.isNil /\ ~schematic.HELM.isNil
        THEN [tmpl |-> [tmp EXCEPT !.Helm = schematic.HELM,
                                   !.CapabilityCategory = HelmCategory],
              err |-> NilErr, jsonCalls |-> 0]
        ELSE extensionTemplate(tmp, raw)

-----------------------------------------------------------------------------
(* LoadTemplate.                                                           *)

Resources == {"ComponentDefinition", "WorkloadDefinition", "TraitDefinition"}

\* GetDefinition(ctx, cli, obj, key) against a store that holds, for the
\* key, one slot per resource: the object is filled in on success and left
\* as it was on failure.
GetDefinition(st, resource, obj) ==
    CASE st[resource].state = "Found" ->
           [err |-> NilErr, obj |-> st[resource].obj]
      [] st[resource].state = "NotFound" ->
           [err |-> NewErr("NotFound"), obj |-> obj]
      [] OTHER -> [err |-> NewErr("InternalError"), obj |-> obj]

Failed(err, log, calls) ==
    [tmpl |-> NilTemplate, err |-> err, fetched |-> log, jsonCalls |-> calls]

\* componentTemplate with reference and annotations read from the located
\* object instead of the ComponentDefinition object.
componentTemplate_FromLocated(key, src, cd, log) ==
    LET nt == NewTemplate(src.Schematic, src.Status, src.Extension) IN
    IF nt.err # NilErr
    THEN Failed(WithMessagef(nt.err, "LoadTemplate [%s] ", key), log,
                nt.jsonCalls)
    ELSE IF nt.tmpl.isNil
    THEN Failed(NewErr("no template found in definition"), log, nt.jsonCalls)
    ELSE LET t1 == [nt.tmpl EXCEPT !.Reference = src.Workload]
             t2 == IF MapGet(src.Annotations, "type") = TerraformCategory
                   THEN [t1 EXCEPT !.CapabilityCategory = TerraformCategory]
                   ELSE t1
         IN  [tmpl |-> t2, err |-> NilErr, fetched |-> log,
              jsonCalls |-> nt.jsonCalls]

\* The tail shared by the two component sub-cases: extract from the located
\* fields, then attach what the ComponentDefinition object cd carries.
componentTemplate(key, src, cd, log) ==
    LET nt == NewTemplate(src.Schematic, src.Status, src.Extension) IN
    IF nt.err # NilErr
    THEN Failed(WithMessagef(nt.err, "LoadTemplate [%s] ", key), log,
                nt.jsonCalls)
    ELSE IF nt.tmpl.isNil
    THEN Failed(NewErr("no template found in definition"), log, nt.jsonCalls)
    ELSE LET t1 == [nt.tmpl EXCEPT !.Reference = cd.Workload]
             t2 == IF MapGet(cd.Annotations, "type") = TerraformCategory
                   THEN [t1 EXCEPT !.CapabilityCategory = TerraformCategory]
                   ELSE t1
         IN  [tmpl |-> t2, err |-> NilErr, fetched |-> log,
              jsonCalls |-> nt.jsonCalls]

\* loadComponent falling back to the WorkloadDefinition on any error.
loadComponent_FallbackOnAnyError(st, key) ==
    LET c == GetDefinition(st, "ComponentDefinition", ZeroDefinition)
        logC == <<"ComponentDefinition">>
    IN  IF c.err # NilErr
        THEN LET w == GetDefinition(st, "WorkloadDefinition", ZeroDefinition)
                 logW == Append(logC, "WorkloadDefinition")
             IN  IF w.err # NilErr
                 THEN Failed(WithMessagef(w.err,
                        "LoadTemplate from WorkloadDefinition [%s] ", key),
                        logW, 0)
                 ELSE componentTemplate(key, w.obj, c.obj, logW)
        ELSE componentTemplate(key, c.obj, c.obj, logC)

\* case types.TypeComponentDefinition
loadComponent(st, key) ==
    LET c == GetDefinition(st, "ComponentDefinition", ZeroDefinition)
        logC == <<"ComponentDefinition">>
    IN  IF IsNotFound(c.err)
        THEN LET w == GetDefinition(st, "WorkloadDefinition", ZeroDefinition)
                 logW == Append(logC, "WorkloadDefinition")
             IN  IF w.err # NilErr
                 THEN Failed(WithMessagef(w.err,
                        "LoadTemplate from WorkloadDefinition [%s] ", key),
                        logW, 0)
                 ELSE componentTemplate(key, w.obj, c.obj, logW)
        ELSE IF c.err # NilErr
        THEN Failed(WithMessagef(c.err,
               "LoadTemplate from ComponentDefinition [%s] ", key), logC, 0)
        ELSE componentTemplate(key, c.obj, c.obj, logC)

\* case types.TypeTrait
loadTrait(st, key) ==
    LET t == GetDefinition(st, "TraitDefinition", ZeroDefinition)
        log == <<"TraitDefinition">>
    IN  IF t.err # NilErr
        THEN Failed(WithMessagef(t.err, "LoadTemplate [%s] ", key), log, 0)
        ELSE LET td == t.obj
                 capabilityCategory ==
                     IF MapGet(td.Annotations, "type") = TerraformCategory
                     THEN TerraformCategory ELSE PlainCategory
                 nt == NewTemplate(td.Schematic, td.Status, td.Extension)
             IN  IF nt.err # NilErr
                 THEN Failed(WithMessagef(nt.err, "LoadTemplate [%s] ", key),
                             log, nt.jsonCalls)
                 ELSE IF nt.tmpl.isNil
                 THEN Failed(NewErr("no template found in definition"), log,
                             nt.jsonCalls)
                 ELSE [tmpl |-> [nt.tmpl EXCEPT
                                   !.CapabilityCategory = capabilityCategory],
                       err |-> NilErr, fetched |-> log,
                       jsonCalls |-> nt.jsonCalls]

\* The final return of LoadTemplate, reached by TypeScope and by every kind
\* the switch does not list.
unsupportedKind(kind, key) ==
    Failed(NewErr("kind(%s) of %s not supported"), <<>>, 0)

\* LoadTemplate with TypeScope resolved like a trait.
LoadTemplate_ScopeAsTrait(st, key, kind) ==
    CASE kind = TypeComponentDefinition -> loadComponent(st, key)
      [] kind = TypeTrait \/ kind = TypeScope -> loadTrait(st, key)
      [] OTHER -> unsupportedKind(kind, key)

\* LoadTemplate(ctx, cli, key, kd)
LoadTemplate(st, key, kind) ==
    CASE kind = TypeComponentDefinition -> loadComponent(st, key)
      [] kind = TypeTrait -> loadTrait(st, key)
      [] OTHER -> unsupportedKind(kind, key)

-----------------------------------------------------------------------------
(* ConvertTemplateJSON2Object.                                             *)

\* json.Unmarshal(in.Raw, &t) for t of type types.Capability: the possible
\* results.  Invalid input is a syntax error; a value that is neither an
\* object nor null is a type error; null and the empty object decode.  The
\* fields of types.Capability are declared outside this file, so a member of
\* a non-empty object may or may not fit the field it names: both results
\* are possible.  A decoded string member "template" is the descriptor's
\* template.
UnmarshalCapability(data, t) ==
    IF ~checkValid(data) THEN {[err |-> NewErr("SyntaxError"), t |-> t]}
    ELSE LET v == scanValue(data, 1).val IN
         CASE v.kind = "null" -> {[err |-> NilErr, t |-> t]}
           [] v.kind = "object" ->
                LET dec == IF "template" \in DOMAIN v.members
                              /\ v.members["template"].kind = "string"
                           THEN [t EXCEPT
                                   !.CueTemplate = v.members["template"].str]
                           ELSE t
                    fits == [err |-> NilErr, t |-> dec]
                    misfit == [err |-> NewErr("UnmarshalTypeError"), t |-> t]
                IN  IF DOMAIN v.members = {} THEN {fits} ELSE {fits, misfit}
           [] OTHER -> {[err |-> NewErr("UnmarshalTypeError"), t |-> t]}

\* ConvertTemplateJSON2Object unmarshalling the extension only when the
\* extraction found no template.
ConvertTemplateJSON2Object_SkipsUnmarshal(capabilityName, in, schematic) ==
    LET t0 == [ZeroCapability EXCEPT !.Name = capabilityName]
        nt == NewTemplate(schematic, NilStatus, in)
        overlay(t) == IF nt.tmpl.TemplateStr # ""
                      THEN [t EXCEPT !.CueTemplate = nt.tmpl.TemplateStr]
                      ELSE t
    IN  IF nt.err # NilErr
        THEN {[t |-> t0, err |-> WithMessagef(nt.err, "parse cue template", ""),
               jsonCalls |-> nt.jsonCalls]}
        ELSE IF ~in.isNil /\ ~in.RawNil /\ nt.tmpl.TemplateStr = ""
        THEN {IF u.err # NilErr
              THEN [t |-> u.t,
                    err |-> WithMessagef(u.err, "parse extension fail", ""),
                    jsonCalls |-> nt.jsonCalls + 1]
              ELSE [t |-> overlay(u.t), err |-> NilErr,
                    jsonCalls |-> nt.jsonCalls + 1]
                : u \in UnmarshalCapability(in.Raw, t0)}
        ELSE {[t |-> overlay(t0), err |-> NilErr, jsonCalls |-> nt.jsonCalls]}

\* ConvertTemplateJSON2Object(capabilityName, in, schematic): the possible
\* results, as [t, err, jsonCalls].
ConvertTemplateJSON2Object(capabilityName, in, schematic) ==
    LET t0 == [ZeroCapability EXCEPT !.Name = capabilityName]
        nt == NewTemplate(schematic, NilStatus, in)
        overlay(t) == IF nt.tmpl.TemplateStr # ""
                      THEN [t EXCEPT !.CueTemplate = nt.tmpl.TemplateStr]
                      ELSE t
    IN  IF nt.err # NilErr
        THEN {[t |-> t0, err |-> WithMessagef(nt.err, "parse cue template", ""),
               jsonCalls |-> nt.jsonCalls]}
        ELSE IF ~in.isNil /\ ~in.RawNil
        THEN {IF u.err # NilErr
              THEN [t |-> u.t,
                    err |-> WithMessagef(u.err, "parse extension fail", ""),
                    jsonCalls |-> nt.jsonCalls + 1]
              ELSE [t |-> overlay(u.t), err |-> NilErr,
                    jsonCalls |-> nt.jsonCalls + 1]
                : u \in UnmarshalCapability(in.Raw, t0)}
        ELSE {[t |-> overlay(t0), err |-> NilErr, jsonCalls |-> nt.jsonCalls]}

-----------------------------------------------------------------------------
(* The inputs the calls are made with.                                     *)

Keys == {"worker", "scaler"}

CapTypes == {TypeComponentDefinition, TypeTrait, TypeScope}

CueBodies == {"", "output: {}"}

CUEs == {NilCUE} \cup {[isNil |-> FALSE, Template |-> b] : b \in CueBodies}

Helms == {NilHelm, [isNil |-> FALSE, Release |-> "chart"]}

Schematics ==
    {NilSchematic} \cup
    {[isNil |-> FALSE, CUE |-> c, HELM |-> h] : c \in CUEs, h \in Helms}

Statuses ==
    {NilStatus,
     [isNil |-> FALSE, CustomStatus |-> "message: ok",
      HealthPolicy |-> "isHealth: true"]}

\* Every token sequence of at most MaxRawLen tokens.
ShortRaws == UNION {[1..n -> Tokens] : n \in 0..MaxRawLen}

\* Payloads named one by one: {"template":"X"}, {"template":1}, {},
\* {"template":"X" (cut short), "X", {"X":"X"}.
StoreRaws ==
    {<<"{", "\"template\"", ":", "\"X\"", "}">>,
     <<"{", "\"template\"", ":", "1", "}">>,
     <<"{", "}">>,
     <<"{", "\"template\"", ":", "\"X\"">>,
     <<"\"X\"">>,
     <<"{", "\"X\"", ":", "\"X\"", "}">>}

\* Longer payloads: null, {"X":1,"template":"X"},
\* {"template":"X","template":1}, {"template":"X",}, {"template":{"X":1}},
\* {"template":null}.
LongRaws ==
    {<<"null">>,
     <<"{", "\"X\"", ":", "1", ",", "\"template\"", ":", "\"X\"", "}">>,
     <<"{", "\"template\"", ":", "\"X\"", ",", "\"template\"", ":", "1", "}">>,
     <<"{", "\"template\"", ":", "\"X\"", ",", "}">>,
     <<"{", "\"template\"", ":", "{", "\"X\"", ":", "1", "}", "}">>,
     <<"{", "\"template\"", ":", "null", "}">>}

\* A non-nil *runtime.RawExtension whose Raw is nil.
RawNilExtension == [isNil |-> FALSE, RawNil |-> TRUE, Raw |-> <<>>]

\* The extensions of direct NewTemplate / ConvertTemplateJSON2Object calls.
Extensions ==
    {NilExtension, RawNilExtension}
    \cup {RawExtension(d) : d \in ShortRaws \cup StoreRaws \cup LongRaws}

\* The extensions of definitions held by the store.
StoreExtensions == {NilExtension} \cup {RawExtension(d) : d \in StoreRaws}

AnnotationMaps ==
    {EmptyMap, "type" :> "terraform", "type" :> "helm"}

DeploymentGVK == [APIVersion |-> "apps/v1", Kind |-> "Deployment"]

\* The objects a slot of the given resource may hold; only a
\* ComponentDefinition carries a workload reference.
Definitions(resource) ==
    [Annotations : AnnotationMaps, Schematic : Schematics, Status : Statuses,
     Extension : StoreExtensions,
     Workload : IF resource = "ComponentDefinition"
                THEN {ZeroGVK, DeploymentGVK} ELSE {ZeroGVK}]

\* A fixed object for the slots a call is not mainly about.
SampleDefinition ==
    [Annotations |-> "type" :> "terraform",
     Schematic |-> [isNil |-> FALSE,
                    CUE |-> [isNil |-> FALSE, Template |-> "sample: {}"],
                    HELM |-> NilHelm],
     Status |-> NilStatus, Extension |-> NilExtension,
     Workload |-> [APIVersion |-> "batch/v1", Kind |-> "Job"]]

Absent == [state |-> "NotFound", obj |-> ZeroDefinition]

Unavailable == [state |-> "Unavailable", obj |-> ZeroDefinition]

Found(d) == [state |-> "Found", obj |-> d]

Slots(resource) ==
    {Absent, Unavailable} \cup {Found(d) : d \in Definitions(resource)}

SampleSlots == {Absent, Unavailable, Found(SampleDefinition)}

\* A store for a call: the slot of resource main holds m, the other two
\* hold sample slots.
StoreWith(main, m, others) ==
    [r \in Resources |-> IF r = main THEN m ELSE others[r]]

EmptyStore == [r \in Resources |-> Absent]

NoArgs ==
    [key |-> "", schematic |-> NilSchematic, status |-> NilStatus,
     raw |-> NilExtension]

NoRet == [tmpl |-> NilTemplate, err |-> NilErr]

-----------------------------------------------------------------------------
(* The state machine: a caller makes one call at a time and takes the      *)
(* result.                                                                 *)

Init ==
    /\ pc = "idle"
    /\ kd = ""
    /\ store = EmptyStore
    /\ args = NoArgs
    /\ fetched = <<>>
    /\ ret = NoRet
    /\ capability = ZeroCapability
    /\ jsonCalls = 0

LoadTemplateCall ==
    /\ pc = "idle"
    /\ \E main \in Resources, key \in Keys, kind \in CapTypes :
       \E m \in Slots(main), others \in [Resources -> SampleSlots] :
         LET st == StoreWith(main, m, others)
             r == LoadTemplate(st, key, kind)
         IN
         /\ pc' = "LoadTemplate"
         /\ kd' = kind
         /\ store' = st
         /\ args' = [NoArgs EXCEPT !.key = key]
         /\ fetched' = r.fetched
         /\ ret' = [tmpl |-> r.tmpl, err |-> r.err]
         /\ jsonCalls' = r.jsonCalls
    /\ UNCHANGED capability

NewTemplateCall ==
    /\ pc = "idle"
    /\ \E schematic \in Schematics, status \in Statuses, raw \in Extensions :
         LET r == NewTemplate(schematic, status, raw) IN
         /\ pc' = "NewTemplate"
         /\ args' = [key |-> "", schematic |-> schematic, status |-> status,
                     raw |-> raw]
         /\ ret' = [tmpl |-> r.tmpl, err |-> r.err]
         /\ jsonCalls' = r.jsonCalls
    /\ UNCHANGED <<kd, store, fetched, capability>>

ConvertTemplateJSON2ObjectCall ==
    /\ pc = "idle"
    /\ \E key \in Keys, in \in Extensions, schematic \in Schematics :
         \E r \in ConvertTemplateJSON2Object(key, in, schematic) :
            /\ pc' = "ConvertTemplateJSON2Object"
            /\ args' = [key |-> key, schematic |-> schematic,
                        status |-> NilStatus, raw |-> in]
            /\ ret' = [tmpl |-> NilTemplate, err |-> r.err]
            /\ capability' = r.t
            /\ jsonCalls' = r.jsonCalls
    /\ UNCHANGED <<kd, store, fetched>>

\* The caller takes the result; nothing of a call outlives it.
Return ==
    /\ pc # "idle"
    /\ pc' = "idle"
    /\ kd' = ""
    /\ store' = EmptyStore
    /\ args' = NoArgs
    /\ fetched' = <<>>
    /\ ret' = NoRet
    /\ capability' = ZeroCapability
    /\ jsonCalls' = 0

Next ==
    \/ LoadTemplateCall
    \/ NewTemplateCall
    \/ ConvertTemplateJSON2ObjectCall
    \/ Return

Spec == Init /\ [][Next]_vars

-----------------------------------------------------------------------------
(* Properties.                                                             *)

Range(f) == {f[i] : i \in DOMAIN f}

HasCUE(schematic) == ~schematic.isNil /\ ~schematic.CUE.isNil

HasHelm(schematic) == ~schematic.isNil /\ ~schematic.HELM.isNil

\* The schematic is nil or has neither variant set.
NoVariant(schematic) == ~HasCUE(schematic) /\ ~HasHelm(schematic)

\* The extension is present and its payload is not valid JSON.
Malformed(raw) == ~raw.isNil /\ ~checkValid(raw.Raw)

LoadedKind(kind) == pc = "LoadTemplate" /\ kd = kind

SlotFound(resource) == store[resource].state = "Found"

\* A LoadTemplate call has returned and the store held a definition for it:
\* the ComponentDefinition, else (on not-found) the WorkloadDefinition, or
\* the TraitDefinition.
Located ==
    \/ /\ LoadedKind(TypeComponentDefinition)
       /\ \/ SlotFound("ComponentDefinition")
          \/ /\ store["ComponentDefinition"].state = "NotFound"
             /\ SlotFound("WorkloadDefinition")
    \/ LoadedKind(TypeTrait) /\ SlotFound("TraitDefinition")

LocatedDefinition ==
    IF kd = TypeTrait THEN store["TraitDefinition"].obj
    ELSE IF SlotFound("ComponentDefinition")
    THEN store["ComponentDefinition"].obj
    ELSE store["WorkloadDefinition"].obj

\* The schematic and extension a returned LoadTemplate or NewTemplate call
\* extracted from.
Extracted == pc = "NewTemplate" \/ Located

ExtractedSchematic ==
    IF pc = "NewTemplate" THEN args.schematic ELSE LocatedDefinition.Schematic

ExtractedExtension ==
    IF pc = "NewTemplate" THEN args.raw ELSE LocatedDefinition.Extension

Succeeded == ret.err = NilErr /\ ~ret.tmpl.isNil

EmptyTemplate(t) == t.TemplateStr = "" /\ t.Helm.isNil

\* The extension, decoded, is an object whose "template" member is a string.
TemplateMember(raw) == scanValue(raw.Raw, 1).val.members["template"]

IsObject(raw) ==
    /\ ~raw.isNil
    /\ checkValid(raw.Raw)
    /\ scanValue(raw.Raw, 1).val.kind = "object"

HasStringTemplate(raw) ==
    /\ IsObject(raw)
    /\ "template" \in DOMAIN scanValue(raw.Raw, 1).val.members
    /\ TemplateMember(raw).kind = "string"

\* C1 (as claimed): when LoadTemplate locates a definition of kind component
\* or trait and that definition holds no CUE template, no Helm reference and
\* no usable extension template, the call fails with "no template found in
\* definition"; and no template that LoadTemplate returns is empty.
C1_EmptyTemplateRejected ==
    /\ (/\ Located
        /\ \/ /\ HasCUE(LocatedDefinition.Schematic)
              /\ LocatedDefinition.Schematic.CUE.Template = ""
           \/ /\ NoVariant(LocatedDefinition.Schematic)
              /\ \/ LocatedDefinition.Extension.isNil
                 \/ /\ IsObject(LocatedDefinition.Extension)
                    /\ ~HasStringTemplate(LocatedDefinition.Extension))
       => ret.tmpl.isNil /\ ret.err.cause = "no template found in definition"
    /\ (pc = "LoadTemplate" /\ Succeeded) => ~EmptyTemplate(ret.tmpl)

\* C2: a component whose ComponentDefinition is not found and whose
\* WorkloadDefinition exists with a CUE template resolves to that template,
\* with health and custom status of the WorkloadDefinition, the plain
\* category and the zero reference, whatever else the store holds.
C2_WorkloadFallback ==
    LET wd == store["WorkloadDefinition"].obj IN
    (/\ LoadedKind(TypeComponentDefinition)
     /\ store["ComponentDefinition"].state = "NotFound"
     /\ SlotFound("WorkloadDefinition")
     /\ HasCUE(wd.Schematic))
    => /\ Succeeded
       /\ ret.tmpl.TemplateStr = wd.Schematic.CUE.Template
       /\ ret.tmpl.Health =
            (IF wd.Status.isNil THEN "" ELSE wd.Status.HealthPolicy)
       /\ ret.tmpl.CustomStatus =
            (IF wd.Status.isNil THEN "" ELSE wd.Status.CustomStatus)
       /\ ret.tmpl.CapabilityCategory = PlainCategory
       /\ ret.tmpl.Reference = ZeroGVK

C2_Witness ==
    /\ LoadedKind(TypeComponentDefinition)
    /\ store["ComponentDefinition"].state = "NotFound"
    /\ SlotFound("WorkloadDefinition")
    /\ HasCUE(store["WorkloadDefinition"].obj.Schematic)
    /\ HasHelm(store["WorkloadDefinition"].obj.Schematic)
    /\ MapGet(store["WorkloadDefinition"].obj.Annotations, "type")
         = TerraformCategory
    /\ ~store["WorkloadDefinition"].obj.Status.isNil
    /\ SlotFound("TraitDefinition")
    /\ ret.tmpl.TemplateStr = "output: {}"
    /\ ret.tmpl.Health = "isHealth: true"

\* C3: for a component the ComponentDefinition is queried first and the
\* WorkloadDefinition only after a not-found; when neither exists the error
\* names the WorkloadDefinition; any other ComponentDefinition failure is
\* returned naming the ComponentDefinition, the WorkloadDefinition is not
\* queried; no call queries a resource twice.
C3_FallbackOnlyOnNotFound ==
    /\ pc = "LoadTemplate"
       => \A i, j \in DOMAIN fetched : fetched[i] = fetched[j] => i = j
    /\ LoadedKind(TypeComponentDefinition)
       => /\ fetched # <<>>
          /\ fetched[1] = "ComponentDefinition"
          /\ "TraitDefinition" \notin Range(fetched)
          /\ "WorkloadDefinition" \in Range(fetched)
               <=> store["ComponentDefinition"].state = "NotFound"
          /\ (/\ store["ComponentDefinition"].state = "NotFound"
              /\ store["WorkloadDefinition"].state = "NotFound")
             => /\ ret.tmpl.isNil
                /\ ret.err =
                     [cause |-> "NotFound",
                      ctx |-> <<(<<"LoadTemplate from WorkloadDefinition [%s] ",
                                   args.key>>)>>]
          /\ store["ComponentDefinition"].state = "Unavailable"
             => /\ ret.tmpl.isNil
                /\ ret.err =
                     [cause |-> "InternalError",
                      ctx |-> <<(<<"LoadTemplate from ComponentDefinition [%s] ",
                                   args.key>>)>>]
                /\ fetched = <<"ComponentDefinition">>

C3_Witness ==
    /\ LoadedKind(TypeComponentDefinition)
    /\ store["ComponentDefinition"].state = "Unavailable"
    /\ SlotFound("WorkloadDefinition")
    /\ fetched = <<"ComponentDefinition">>
    /\ ret.err.cause = "InternalError"

\* C4: whenever the schematic has a CUE variant, extraction succeeds with
\* exactly the CUE body as template string and no Helm reference, and the
\* extension is never unmarshalled, whatever Helm variant and extension are
\* there.
C4_CuePrecedence ==
    (Extracted /\ HasCUE(ExtractedSchematic))
    => /\ Succeeded
       /\ ret.tmpl.TemplateStr = ExtractedSchematic.CUE.Template
       /\ ret.tmpl.Helm.isNil
       /\ jsonCalls = 0

C4_Witness ==
    /\ pc = "NewTemplate"
    /\ HasCUE(args.schematic)
    /\ args.schematic.CUE.Template = ""
    /\ HasHelm(args.schematic)
    /\ Malformed(args.raw)
    /\ Succeeded
    /\ ret.tmpl.TemplateStr = ""

\* C5 (as claimed): whenever the extension is malformed JSON the resolution
\* fails with the parse error and returns no template, whatever the
\* schematic contains.
C5_MalformedAlwaysFails ==
    (Extracted /\ Malformed(ExtractedExtension))
    => ret.tmpl.isNil /\ ret.err.cause = "SyntaxError"

\* C5 (amended): whenever the schematic is nil or has neither a CUE nor a
\* Helm variant and the extension is malformed JSON, the resolution fails
\* with the parse error and returns no template.
C5_MalformedFailsWithoutVariant ==
    (/\ Extracted
     /\ NoVariant(ExtractedSchematic)
     /\ Malformed(ExtractedExtension))
    => /\ ret.tmpl.isNil
       /\ ret.err.cause = "SyntaxError"
       /\ pc = "LoadTemplate"
          => ret.err.ctx = <<(<<"LoadTemplate [%s] ", args.key>>)>>

C5_Witness ==
    /\ Located
    /\ ~LocatedDefinition.Schematic.isNil
    /\ NoVariant(LocatedDefinition.Schematic)
    /\ LocatedDefinition.Extension.Raw
         = <<"{", "\"template\"", ":", "\"X\"">>
    /\ ret.tmpl.isNil
    /\ ret.err.cause = "SyntaxError"

\* C6: when the schematic is nil or has neither variant and the extension is
\* a well-formed JSON object, NewTemplate returns without error, with the
\* string value of the template key as template string, and with the empty
\* template string when the key is absent or its value is not a string.
C6_ExtensionTemplate ==
    (/\ pc = "NewTemplate"
     /\ NoVariant(args.schematic)
     /\ IsObject(args.raw))
    => /\ Succeeded
       /\ ret.tmpl.TemplateStr =
            (IF HasStringTemplate(args.raw)
             THEN TemplateMember(args.raw).str ELSE "")
       /\ args.raw.Raw = <<"{", "\"template\"", ":", "\"X\"", "}">>
          => ret.tmpl.TemplateStr = "X"
       /\ args.raw.Raw \in {<<"{", "}">>,
                            <<"{", "\"X\"", ":", "\"X\"", "}">>,
                            <<"{", "\"template\"", ":", "1", "}">>}
          => ret.tmpl.TemplateStr = ""

C6_Witness ==
    /\ pc = "NewTemplate"
    /\ ~args.schematic.isNil
    /\ NoVariant(args.schematic)
    /\ args.raw.Raw = <<"{", "\"template\"", ":", "1", "}">>
    /\ Succeeded
    /\ ret.tmpl.TemplateStr = ""

\* C7: no template produced by NewTemplate or returned by LoadTemplate has
\* both a non-empty template string and a Helm reference.
C7_TemplateStrOrHelm ==
    (pc \in {"NewTemplate", "LoadTemplate"} /\ ~ret.tmpl.isNil)
    => ~(ret.tmpl.TemplateStr # "" /\ ~ret.tmpl.Helm.isNil)

C7_Witness ==
    /\ pc = "NewTemplate"
    /\ ~HasCUE(args.schematic)
    /\ HasHelm(args.schematic)
    /\ HasStringTemplate(args.raw)
    /\ Succeeded
    /\ ~ret.tmpl.Helm.isNil
    /\ ret.tmpl.TemplateStr = ""

\* C8: LoadTemplate for kind scope fails as unsupported for every key and
\* store, queries nothing and returns no template.
C8_ScopeUnsupported ==
    LoadedKind(TypeScope)
    => /\ ret.tmpl.isNil
       /\ ret.err = NewErr("kind(%s) of %s not supported")
       /\ fetched = <<>>
       /\ jsonCalls = 0

C8_Witness ==
    /\ LoadedKind(TypeScope)
    /\ SlotFound("TraitDefinition")
    /\ HasCUE(store["TraitDefinition"].obj.Schematic)
    /\ ret.tmpl.isNil
    /\ ret.err.cause = "kind(%s) of %s not supported"

ConvertReturned == pc = "ConvertTemplateJSON2Object"

\* What NewTemplate returns for the arguments of the returned
\* ConvertTemplateJSON2Object call.
ConvertExtraction == NewTemplate(args.schematic, NilStatus, args.raw)

ParseExtensionFail == <<(<<"parse extension fail", "">>)>>

\* C9 (as claimed): ConvertTemplateJSON2Object fails exactly when the
\* extension is present and malformed, which is exactly when NewTemplate
\* fails for the same schematic and extension; the error carries "parse
\* extension fail" only when the extraction succeeded and the extraction's
\* own context when the extraction failed.
C9_FailsExactlyAsExtraction ==
    ConvertReturned
    => /\ ret.err # NilErr <=> Malformed(args.raw)
       /\ ret.err # NilErr <=> ConvertExtraction.err # NilErr
       /\ ret.err.ctx = ParseExtensionFail => ConvertExtraction.err = NilErr
       /\ ConvertExtraction.err # NilErr
          => ret.err = WithMessagef(ConvertExtraction.err,
                                    "parse cue template", "")

\* C9 (amended): ConvertTemplateJSON2Object fails whenever NewTemplate fails
\* for the same schematic and extension, with the extraction's error under
\* the "parse cue template" context; it also fails, with a syntax error
\* under the "parse extension fail" context, whenever the extraction
\* succeeds and the extension holds non-nil raw bytes that are not valid
\* JSON, as happens with a CUE or Helm variant in the schematic; "parse
\* extension fail" is carried only when the extraction succeeded; and the
\* call never fails for a nil extension, nor for nil raw bytes when the
\* extraction succeeded.
C9_FailsOnExtractionOrUnmarshal ==
    ConvertReturned
    => /\ ConvertExtraction.err # NilErr
          => ret.err = WithMessagef(ConvertExtraction.err,
                                    "parse cue template", "")
       /\ (/\ ConvertExtraction.err = NilErr
           /\ ~args.raw.isNil
           /\ ~args.raw.RawNil
           /\ ~checkValid(args.raw.Raw))
          => ret.err = [cause |-> "SyntaxError", ctx |-> ParseExtensionFail]
       /\ ret.err.ctx = ParseExtensionFail => ConvertExtraction.err = NilErr
       /\ args.raw.isNil => ret.err = NilErr
       /\ (ConvertExtraction.err = NilErr /\ args.raw.RawNil)
          => ret.err = NilErr

C9_Witness ==
    /\ ConvertReturned
    /\ HasCUE(args.schematic)
    /\ args.schematic.CUE.Template = "output: {}"
    /\ args.raw.Raw = <<"{", "\"template\"", ":", "\"X\"">>
    /\ ConvertExtraction.err = NilErr
    /\ ret.err = [cause |-> "SyntaxError", ctx |-> ParseExtensionFail]

\* The "type" annotation LoadTemplate is specified to consult: that of the
\* found ComponentDefinition or TraitDefinition; none on the
\* WorkloadDefinition fallback.
ConsultedAnnotation ==
    IF kd = TypeTrait
    THEN MapGet(store["TraitDefinition"].obj.Annotations, "type")
    ELSE IF SlotFound("ComponentDefinition")
    THEN MapGet(store["ComponentDefinition"].obj.Annotations, "type")
    ELSE ""

\* C10 (as claimed): for both kinds, the category of every template that
\* LoadTemplate returns is terraform when the definition is annotated
\* type=terraform, otherwise helm when the template carries a Helm
\* reference, otherwise plain; and a found ComponentDefinition gives its
\* workload reference.
C10_CategoryFromDefinition ==
    (Located /\ Succeeded)
    => /\ ret.tmpl.CapabilityCategory =
            (IF ConsultedAnnotation = TerraformCategory
             THEN TerraformCategory
             ELSE IF ~ret.tmpl.Helm.isNil THEN HelmCategory
             ELSE PlainCategory)
       /\ (kd = TypeComponentDefinition /\ SlotFound("ComponentDefinition"))
          => ret.tmpl.Reference = store["ComponentDefinition"].obj.Workload

====
